---- MODULE Spec2Model ----
(***************************************************************************)
(* A model of boost::histogram::histogram<Axes, Storage>                   *)
(* (include/boost/histogram/histogram.hpp).                                *)
(*                                                                         *)
(* A histogram owns an axes sequence and a storage.  The class itself      *)
(* (constructors, assignment, fill, at, reset, the compound and binary     *)
(* operators) is translated from histogram.hpp.  The helpers it calls in   *)
(* namespace detail (bincount, axes_equal, axes_assign, fill, at), the     *)
(* axis types and the storage types live in other headers; they are        *)
(* modelled from the interface description of the specification and are   *)
(* marked "spec-modelled" below.                                           *)
(***************************************************************************)
EXTENDS Integers, Sequences, FiniteSets, TLC

VARIABLES
  hs,       \* Slot -> histogram object (or NoHist: no object lives there)
  last,     \* what the last operation was, its inputs, its outcome
  nops,     \* number of operations performed so far
  aborted,  \* the process died in an out-of-bounds storage access
  workers,  \* merge scenario: worker -> its histogram
  alive,    \* merge scenario: workers not yet merged into another one
  whole,    \* merge scenario: the single histogram filled with every input
  mphase,   \* merge scenario: "off" | "fill" | "merge"
  nfill     \* merge scenario: inputs consumed so far

vars == <<hs, last, nops, aborted, workers, alive, whole, mphase, nfill>>

(***************************************************************************)
(* Bounds of the model.                                                    *)
(***************************************************************************)
MaxOps == 3        \* operations per behaviour of Spec
MaxInputs == 3     \* fill inputs per behaviour of SpecMerge

Slots == {1, 2}
Workers == {1, 2, 3}

(***************************************************************************)
(* Axes (spec-modelled: axis types are collaborators of the class).        *)
(* An axis has n ordinary bins over the integer range [0, n) and optional  *)
(* underflow / overflow bins at the two ends of its bin-id range.          *)
(***************************************************************************)
AxisA == [n |-> 1, uf |-> TRUE, of |-> TRUE]
AxisB == [n |-> 2, uf |-> FALSE, of |-> FALSE]
AxisC == [n |-> 1, uf |-> TRUE, of |-> FALSE]

AxisChoices == { AxisA, AxisB, AxisC }

AxesChoices == { <<AxisB>>, <<AxisC>>, <<AxisA, AxisB>> }

\* inputs of fill (raw coordinates) and of at (bin indices): every tuple of
\* at most MaxRank entries, and some longer ones (more arguments than axes)
MaxRank == CHOOSE m \in {Len(a) : a \in AxesChoices} : \A a \in AxesChoices : Len(a) <= m
Values == {-1, 0, 1}
Indices == {0, 2, 3}
Coords == UNION { [1..k -> Values] : k \in 0..MaxRank } \cup [1..(MaxRank + 1) -> {0}]
IndexTuples == UNION { [1..k -> Indices] : k \in 0..MaxRank } \cup [1..(MaxRank + 1) -> {0}]

\* the Storage template argument of a histogram type
StorageTypes == {"count", "real"}

\* scalars of *= and /= (doubles whose products are exact here)
Scalars == {1, 2}

NoBin == -1

\* total_bin_count(): ordinary + extra bins
Extent(a) == a.n + (IF a.uf THEN 1 ELSE 0) + (IF a.of THEN 1 ELSE 0)

\* index(value) -> bin id in [0, Extent), extra bins at the ends; NoBin when
\* the value is outside the domain and the axis has no extra bin for it
AxisIndex(a, v) ==
  LET shift == IF a.uf THEN 1 ELSE 0 IN
  IF v < 0 THEN (IF a.uf THEN 0 ELSE NoBin)
  ELSE IF v < a.n THEN v + shift
  ELSE IF a.of THEN a.n + shift ELSE NoBin

\* detail::bincount: the product of the axes' total bin counts
RECURSIVE bincount(_)
bincount(axes) ==
  IF axes = <<>> THEN 1
  ELSE Extent(Head(axes)) * bincount(Tail(axes))

\* detail::axes_equal: same rank and pairwise equal axes
axes_equal(a, b) ==
  /\ Len(a) = Len(b)
  /\ \A k \in 1..Len(a) : a[k] = b[k]

\* detail::axes_assign: the target's axes become a copy of the source's
axes_assign(dst, src) == [k \in 1..Len(src) |-> src[k]]

\* mixed-radix (row-major) encoding: ((id_1) * r_2 + id_2) * r_3 + id_3 ...
RECURSIVE LinearizeFrom(_, _, _, _)
LinearizeFrom(axes, ids, k, acc) ==
  IF k > Len(axes) THEN acc
  ELSE LinearizeFrom(axes, ids, k + 1, acc * Extent(axes[k]) + ids[k])

Linearize(axes, ids) == LinearizeFrom(axes, ids, 1, 0)

\* detail::at: arity check, then the optional linear index (NoBin: none)
detail_at(axes, idx) ==
  IF Len(idx) # Len(axes) THEN [res |-> "invalid_argument", off |-> NoBin]
  ELSE IF \E k \in 1..Len(axes) : idx[k] < 0 \/ idx[k] >= Extent(axes[k])
       THEN [res |-> "ok", off |-> NoBin]
       ELSE [res |-> "ok", off |-> Linearize(axes, idx)]

\* the bin ids the axes route a coordinate tuple of the right arity to
BinIds(axes, args) == [k \in 1..Len(axes) |-> AxisIndex(axes[k], args[k])]

\* detail::fill, up to the cell update: arity check, per-axis lookup,
\* linear combination ("skipped": some axis has no bin for its coordinate)
detail_fill(axes, args) ==
  IF Len(args) # Len(axes) THEN [res |-> "invalid_argument", off |-> NoBin]
  ELSE IF \E k \in 1..Len(axes) : BinIds(axes, args)[k] = NoBin
       THEN [res |-> "skipped", off |-> NoBin]
       ELSE [res |-> "ok", off |-> Linearize(axes, BinIds(axes, args))]

(***************************************************************************)
(* Storage (spec-modelled): a sequence of cells; cell i of the code is     *)
(* cells[i + 1].                                                           *)
(***************************************************************************)
\* storage_type(): a default-constructed storage holds no cell
DefaultCells == <<>>

\* storage.reset(n): n cells, each default-initialised
StorageReset(n) == [i \in 1..n |-> 0]

\* storage += rhs: cell-wise sum (over the cells both have)
StoragePlus(a, b) == [i \in 1..Len(a) |-> IF i <= Len(b) THEN a[i] + b[i] ELSE a[i]]

\* storage *= x
StorageScale(a, num, den) == [i \in 1..Len(a) |-> (a[i] * num) \div den]

\* storage == rhs: same size and equal cells, whatever the cell types
StorageEq(a, b) == Len(a) = Len(b) /\ \A i \in 1..Len(a) : a[i] = b[i]

\* storages a caller may hand to the constructor
SuppliedCells == { <<7, 7, 7>> }

(***************************************************************************)
(* Histogram objects.                                                      *)
(***************************************************************************)
NoHist == [axes |-> <<>>, stype |-> "none", cells |-> <<>>]

Hist(axes, stype, cells) == [axes |-> axes, stype |-> stype, cells |-> cells]

Exists(h) == h.stype # "none"

\* size(): storage_.size()
size(h) == Len(h.cells)

\* rank(): detail::get_size(axes_)
rank(h) == Len(h.axes)

(***************************************************************************)
(* The member functions of histogram, as functions of the object's value.  *)
(***************************************************************************)
\* conversion of a storage into a storage of another type: same size, each
\* cell converted (spec-modelled; the model's cell values are whole numbers)
StorageConvert(cells) == [i \in 1..Len(cells) |-> cells[i]]

\* Faulty variant: the constructor keeps the storage it was handed, without the reset
CtorAxesStorageNoReset(axes, stype, cells) == Hist(axes, stype, cells)

\* histogram(A&& a, S&& s): axes_(a), storage_(s); storage_.reset(bincount(axes_))
CtorAxesStorage(axes, stype, cells) ==
  LET axes_ == axes
      storage_ == cells
  IN Hist(axes_, stype, StorageReset(bincount(axes_)))

\* histogram(A&& a) : histogram(a, storage_type())
CtorAxes(axes, stype) == CtorAxesStorage(axes, stype, DefaultCells)

\* histogram() = default: value-initialised axes (no axis) and storage (no cell)
CtorDefault(stype) == Hist(<<>>, stype, DefaultCells)

\* histogram(const histogram&) / histogram(histogram&&) = default
CtorCopy(rhs) == Hist(rhs.axes, rhs.stype, rhs.cells)

\* histogram& operator=(const histogram&) / operator=(histogram&&) = default
AssignCopy(h, rhs) == Hist(rhs.axes, h.stype, rhs.cells)

\* histogram(const histogram<A, S>& rhs) / histogram(histogram<A, S>&& rhs):
\* storage_(rhs.storage_), then detail::axes_assign(axes_, rhs.axes_)
CtorConvert(stype, rhs) ==
  Hist(axes_assign(<<>>, rhs.axes), stype, StorageConvert(rhs.cells))

\* operator=(const histogram<A, S>& rhs) / operator=(histogram<A, S>&& rhs):
\* detail::axes_assign(axes_, rhs.axes_); storage_ = rhs.storage_
AssignConvert(h, rhs) ==
  Hist(axes_assign(h.axes, rhs.axes), h.stype, StorageConvert(rhs.cells))

\* reset(): storage_.reset(storage_.size())
HistReset(h) == [h EXCEPT !.cells = StorageReset(Len(h.cells))]

\* operator()(const std::tuple<Ts...>& t): detail::fill(storage_, axes_, t).
\* ub: the cell addressed lies outside the storage
HistFillTuple(h, args) ==
  LET r == detail_fill(h.axes, args) IN
  IF r.res # "ok" THEN [res |-> r.res, off |-> NoBin, h |-> h, ub |-> FALSE]
  ELSE IF r.off < Len(h.cells)
       THEN [res |-> "ok", off |-> r.off,
             h |-> [h EXCEPT !.cells[r.off + 1] = @ + 1], ub |-> FALSE]
       ELSE [res |-> "ok", off |-> r.off, h |-> h, ub |-> TRUE]

\* Faulty variant: only the first rank() arguments are forwarded
HistFillTruncated(h, args) ==
  HistFillTuple(h, IF Len(args) > rank(h) THEN SubSeq(args, 1, rank(h)) ELSE args)

\* operator()(const Ts&... ts): operator()(std::forward_as_tuple(ts...))
HistFill(h, args) == HistFillTuple(h, args)

\* Faulty variant: the optional index is used without the test for "none"
HistAtTupleUnchecked(h, idx) ==
  LET r == detail_at(h.axes, idx) IN
  IF r.res # "ok" THEN [res |-> r.res, off |-> NoBin, val |-> 0, ub |-> FALSE]
  ELSE LET o == IF r.off = NoBin THEN 0 ELSE r.off IN
       IF o < Len(h.cells)
       THEN [res |-> "ok", off |-> o, val |-> h.cells[o + 1], ub |-> FALSE]
       ELSE [res |-> "ok", off |-> o, val |-> 0, ub |-> TRUE]

\* at(const std::tuple<Ts...>& t) and at(const Iterable& c), const or not:
\* idx = detail::at(axes_, t); if (!idx) throw out_of_range; storage_[*idx]
HistAtTuple(h, idx) ==
  LET r == detail_at(h.axes, idx) IN
  IF r.res # "ok" THEN [res |-> r.res, off |-> NoBin, val |-> 0, ub |-> FALSE]
  ELSE IF r.off = NoBin
       THEN [res |-> "out_of_range", off |-> NoBin, val |-> 0, ub |-> FALSE]
       ELSE IF r.off < Len(h.cells)
            THEN [res |-> "ok", off |-> r.off, val |-> h.cells[r.off + 1], ub |-> FALSE]
            ELSE [res |-> "ok", off |-> r.off, val |-> 0, ub |-> TRUE]

\* at(int t, Ts... ts): at(std::forward_as_tuple(t, ts...))
HistAt(h, idx) == HistAtTuple(h, idx)

\* Faulty variant: the storages' sizes are compared instead of the axes
HistPlusAssignSizeCheck(h, rhs) ==
  IF Len(h.cells) # Len(rhs.cells)
  THEN [res |-> "invalid_argument", h |-> h]
  ELSE [res |-> "ok", h |-> [h EXCEPT !.cells = StoragePlus(@, rhs.cells)]]

\* Faulty variant: the right-hand storage is assigned instead of added
HistPlusAssignOverwrite(h, rhs) ==
  IF ~axes_equal(h.axes, rhs.axes)
  THEN [res |-> "invalid_argument", h |-> h]
  ELSE [res |-> "ok", h |-> [h EXCEPT !.cells = rhs.cells]]

\* Faulty variant: the axes are checked and nothing is added
HistPlusAssignNoAdd(h, rhs) ==
  IF ~axes_equal(h.axes, rhs.axes)
  THEN [res |-> "invalid_argument", h |-> h]
  ELSE [res |-> "ok", h |-> h]

\* operator+=: axes check first, then storage_ += rhs.storage_
HistPlusAssign(h, rhs) ==
  IF ~axes_equal(h.axes, rhs.axes)
  THEN [res |-> "invalid_argument", h |-> h]
  ELSE [res |-> "ok", h |-> [h EXCEPT !.cells = StoragePlus(@, rhs.cells)]]

\* scalars are fractions num/den; 1.0 / x
Recip(x) == [num |-> x.den, den |-> x.num]

ScalarChoices == { [num |-> n, den |-> 1] : n \in Scalars } \cup
                 { [num |-> 1, den |-> n] : n \in Scalars }

\* the model follows a scaling only while every product is a whole number
Exact(h, x) == \A i \in 1..Len(h.cells) : (h.cells[i] * x.num) % x.den = 0

\* operator*=(const double x): storage_ *= x
HistMulAssign(h, x) == [h EXCEPT !.cells = StorageScale(@, x.num, x.den)]

\* operator/=(const double x): operator*=(1.0 / x)
HistDivAssign(h, x) == HistMulAssign(h, Recip(x))

\* operator==: detail::axes_equal(axes_, rhs.axes_) && storage_ == rhs.storage_
HistEq(a, b) == axes_equal(a.axes, b.axes) /\ StorageEq(a.cells, b.cells)

\* detail::common_storage<S1, S2> (spec-modelled): the type able to hold both
CommonStorage(s1, s2) == IF s1 = "real" \/ s2 = "real" THEN "real" ELSE "count"

\* Faulty variant: the result is constructed from h's axes alone, not from h
OpTimesFromAxes(h, x) == HistMulAssign(CtorAxes(h.axes, CommonStorage(h.stype, "real")), x)

\* operator*(const histogram<A, S>& h, double x):
\* r = histogram<A, common_storage<S, dense_storage<double>>>(h); return r *= x
OpTimes(h, x) == HistMulAssign(CtorConvert(CommonStorage(h.stype, "real"), h), x)

\* operator*(double x, const histogram<A, S>& h): h * x
OpTimesLeft(x, h) == OpTimes(h, x)

\* operator/(const histogram<A, S>& h, double x): h * (1.0 / x)
OpDivide(h, x) == OpTimes(h, Recip(x))

\* operator+(const histogram<A1, S1>& a, const histogram<A2, S2>& b):
\* r = histogram<common_axes, common_storage>(a); return r += b
OpPlus(a, b) == HistPlusAssign(CtorConvert(CommonStorage(a.stype, b.stype), a), b)

\* operator+(histogram<A, S>&& a, const histogram<A, S>& b): a += b
OpPlusMoveLeft(a, b) == HistPlusAssign(a, b)

\* operator+(const histogram<A, S>& a, histogram<A, S>&& b): b += a
OpPlusMoveRight(a, b) == HistPlusAssign(b, a)

\* last: the operation (op) on the object of slot, its other operand (slot
\* other, value rhs), its arguments, the object before the call (pre), how
\* the call ended (res), the cell offset it addressed (off), the cell value
\* it read (val) and the histogram it returned (ret)
NoLast == [op |-> "none", slot |-> 0, other |-> 0, args |-> <<>>, pre |-> NoHist,
           rhs |-> NoHist, res |-> "ok", off |-> NoBin, val |-> 0, ret |-> NoHist]

\* the caller has constructed its first histogram from an axes sequence
Init ==
  /\ \E axes \in AxesChoices, stype \in StorageTypes :
       hs = [s \in Slots |-> IF s = 1 THEN CtorAxes(axes, stype) ELSE NoHist]
  /\ last = NoLast
  /\ nops = 0
  /\ aborted = FALSE
  /\ workers = [w \in Workers |-> NoHist]
  /\ alive = {}
  /\ whole = NoHist
  /\ mphase = "off"
  /\ nfill = 0

MergeUnchanged == UNCHANGED <<workers, alive, whole, mphase, nfill>>

\* one more operation of the single-threaded caller
Step == ~aborted /\ nops < MaxOps /\ mphase = "off" /\ nops' = nops + 1 /\ MergeUnchanged

Done(op, s, t, args, pre, res, off, val, ret) ==
  last' = [op |-> op, slot |-> s, other |-> t, args |-> args, pre |-> pre,
           rhs |-> IF t \in Slots THEN hs[t] ELSE NoHist,
           res |-> res, off |-> off, val |-> val, ret |-> ret]

\* what an out-of-bounds read may yield
GarbageValues == {0, 5}

(***************************************************************************)
(* Construction.  A constructor creates the object of an empty slot (no    *)
(* object was constructed there yet, or it was moved from).                *)
(***************************************************************************)
ConstructAxesStorage(s, axes, stype, cells) ==
  /\ Step /\ ~Exists(hs[s])
  /\ hs' = [hs EXCEPT ![s] = CtorAxesStorage(axes, stype, cells)]
  /\ Done("ctor_axes_storage", s, 0, cells, hs[s], "ok", NoBin, 0, NoHist)
  /\ UNCHANGED aborted

ConstructAxes(s, axes, stype) ==
  /\ Step /\ ~Exists(hs[s])
  /\ hs' = [hs EXCEPT ![s] = CtorAxes(axes, stype)]
  /\ Done("ctor_axes", s, 0, <<>>, hs[s], "ok", NoBin, 0, NoHist)
  /\ UNCHANGED aborted

ConstructDefault(s, stype) ==
  /\ Step /\ ~Exists(hs[s])
  /\ hs' = [hs EXCEPT ![s] = CtorDefault(stype)]
  /\ Done("ctor_default", s, 0, <<>>, hs[s], "ok", NoBin, 0, NoHist)
  /\ UNCHANGED aborted

\* T b(a): same type
ConstructCopy(s, t) ==
  /\ Step /\ s # t /\ ~Exists(hs[s]) /\ Exists(hs[t])
  /\ hs' = [hs EXCEPT ![s] = CtorCopy(hs[t])]
  /\ Done("ctor_copy", s, t, <<>>, hs[s], "ok", NoBin, 0, NoHist)
  /\ UNCHANGED aborted

\* T b(std::move(a)): the moved-from object is not used again
ConstructMove(s, t) ==
  /\ Step /\ s # t /\ ~Exists(hs[s]) /\ Exists(hs[t])
  /\ hs' = [hs EXCEPT ![s] = CtorCopy(hs[t]), ![t] = NoHist]
  /\ Done("ctor_move", s, t, <<>>, hs[s], "ok", NoBin, 0, NoHist)
  /\ UNCHANGED aborted

\* histogram<A, S2> b(a) with a of another histogram type
ConstructConvertCopy(s, t, stype) ==
  /\ Step /\ s # t /\ ~Exists(hs[s]) /\ Exists(hs[t]) /\ stype # hs[t].stype
  /\ hs' = [hs EXCEPT ![s] = CtorConvert(stype, hs[t])]
  /\ Done("ctor_convert_copy", s, t, <<>>, hs[s], "ok", NoBin, 0, NoHist)
  /\ UNCHANGED aborted

ConstructConvertMove(s, t, stype) ==
  /\ Step /\ s # t /\ ~Exists(hs[s]) /\ Exists(hs[t]) /\ stype # hs[t].stype
  /\ hs' = [hs EXCEPT ![s] = CtorConvert(stype, hs[t]), ![t] = NoHist]
  /\ Done("ctor_convert_move", s, t, <<>>, hs[s], "ok", NoBin, 0, NoHist)
  /\ UNCHANGED aborted

(***************************************************************************)
(* Assignment to an existing object.                                       *)
(***************************************************************************)
Assign(s, t) ==
  /\ Step /\ s # t /\ Exists(hs[s]) /\ Exists(hs[t]) /\ hs[s].stype = hs[t].stype
  /\ hs' = [hs EXCEPT ![s] = AssignCopy(hs[s], hs[t])]
  /\ Done("assign_copy", s, t, <<>>, hs[s], "ok", NoBin, 0, NoHist)
  /\ UNCHANGED aborted

AssignMove(s, t) ==
  /\ Step /\ s # t /\ Exists(hs[s]) /\ Exists(hs[t]) /\ hs[s].stype = hs[t].stype
  /\ hs' = [hs EXCEPT ![s] = AssignCopy(hs[s], hs[t]), ![t] = NoHist]
  /\ Done("assign_move", s, t, <<>>, hs[s], "ok", NoBin, 0, NoHist)
  /\ UNCHANGED aborted

AssignConvertCopy(s, t) ==
  /\ Step /\ s # t /\ Exists(hs[s]) /\ Exists(hs[t]) /\ hs[s].stype # hs[t].stype
  /\ hs' = [hs EXCEPT ![s] = AssignConvert(hs[s], hs[t])]
  /\ Done("assign_convert_copy", s, t, <<>>, hs[s], "ok", NoBin, 0, NoHist)
  /\ UNCHANGED aborted

AssignConvertMove(s, t) ==
  /\ Step /\ s # t /\ Exists(hs[s]) /\ Exists(hs[t]) /\ hs[s].stype # hs[t].stype
  /\ hs' = [hs EXCEPT ![s] = AssignConvert(hs[s], hs[t]), ![t] = NoHist]
  /\ Done("assign_convert_move", s, t, <<>>, hs[s], "ok", NoBin, 0, NoHist)
  /\ UNCHANGED aborted

(***************************************************************************)
(* Fill, access, reset.                                                    *)
(***************************************************************************)
Fill(s, args) ==
  /\ Step /\ Exists(hs[s])
  /\ LET r == HistFill(hs[s], args) IN
     \/ /\ ~r.ub
        /\ hs' = [hs EXCEPT ![s] = r.h]
        /\ Done("fill", s, 0, args, hs[s], r.res, r.off, 0, NoHist)
        /\ UNCHANGED aborted
     \/ /\ r.ub      \* the write lands outside the storage: nothing of it is seen
        /\ hs' = hs
        /\ Done("fill", s, 0, args, hs[s], r.res, r.off, 0, NoHist)
        /\ UNCHANGED aborted
     \/ /\ r.ub      \* the write faults
        /\ hs' = hs
        /\ Done("fill", s, 0, args, hs[s], "crash", r.off, 0, NoHist)
        /\ aborted' = TRUE

At(s, idx) ==
  /\ Step /\ Exists(hs[s])
  /\ hs' = hs
  /\ LET r == HistAt(hs[s], idx) IN
     \/ /\ ~r.ub
        /\ Done("at", s, 0, idx, hs[s], r.res, r.off, r.val, NoHist)
        /\ UNCHANGED aborted
     \/ /\ r.ub      \* the read is outside the storage: any value
        /\ \E g \in GarbageValues :
             Done("at", s, 0, idx, hs[s], r.res, r.off, g, NoHist)
        /\ UNCHANGED aborted
     \/ /\ r.ub      \* the read faults
        /\ Done("at", s, 0, idx, hs[s], "crash", r.off, 0, NoHist)
        /\ aborted' = TRUE

Reset(s) ==
  /\ Step /\ Exists(hs[s])
  /\ hs' = [hs EXCEPT ![s] = HistReset(hs[s])]
  /\ Done("reset", s, 0, <<>>, hs[s], "ok", NoBin, 0, NoHist)
  /\ UNCHANGED aborted

(***************************************************************************)
(* Arithmetic.                                                             *)
(***************************************************************************)
PlusAssign(s, t) ==
  /\ Step /\ Exists(hs[s]) /\ Exists(hs[t])
  /\ LET r == HistPlusAssign(hs[s], hs[t]) IN
     /\ hs' = [hs EXCEPT ![s] = r.h]
     /\ Done("plus_assign", s, t, <<>>, hs[s], r.res, NoBin, 0, NoHist)
  /\ UNCHANGED aborted

\* only a storage whose cells can be scaled has operator*=
MulAssign(s, x) ==
  /\ Step /\ Exists(hs[s]) /\ hs[s].stype = "real" /\ Exact(hs[s], x)
  /\ hs' = [hs EXCEPT ![s] = HistMulAssign(hs[s], x)]
  /\ Done("mul_assign", s, 0, <<x.num, x.den>>, hs[s], "ok", NoBin, 0, NoHist)
  /\ UNCHANGED aborted

DivAssign(s, x) ==
  /\ Step /\ Exists(hs[s]) /\ hs[s].stype = "real" /\ Exact(hs[s], Recip(x))
  /\ hs' = [hs EXCEPT ![s] = HistDivAssign(hs[s], x)]
  /\ Done("div_assign", s, 0, <<x.num, x.den>>, hs[s], "ok", NoBin, 0, NoHist)
  /\ UNCHANGED aborted

\* h * x, x * h, h / x: the result is a temporary, kept in last.ret
Times(s, x) ==
  /\ Step /\ Exists(hs[s]) /\ Exact(hs[s], x)
  /\ hs' = hs
  /\ Done("times", s, 0, <<x.num, x.den>>, hs[s], "ok", NoBin, 0, OpTimes(hs[s], x))
  /\ UNCHANGED aborted

TimesLeft(s, x) ==
  /\ Step /\ Exists(hs[s]) /\ Exact(hs[s], x)
  /\ hs' = hs
  /\ Done("times_left", s, 0, <<x.num, x.den>>, hs[s], "ok", NoBin, 0, OpTimesLeft(x, hs[s]))
  /\ UNCHANGED aborted

Divide(s, x) ==
  /\ Step /\ Exists(hs[s]) /\ Exact(hs[s], Recip(x))
  /\ hs' = hs
  /\ Done("divide", s, 0, <<x.num, x.den>>, hs[s], "ok", NoBin, 0, OpDivide(hs[s], x))
  /\ UNCHANGED aborted

\* a + b, both operands const
Plus(s, t) ==
  /\ Step /\ Exists(hs[s]) /\ Exists(hs[t])
  /\ hs' = hs
  /\ LET r == OpPlus(hs[s], hs[t]) IN
     Done("plus", s, t, <<>>, hs[s], r.res, NoBin, 0, IF r.res = "ok" THEN r.h ELSE NoHist)
  /\ UNCHANGED aborted

\* std::move(a) + b, same histogram type: a itself is accumulated into
PlusMoveLeft(s, t) ==
  /\ Step /\ Exists(hs[s]) /\ Exists(hs[t]) /\ hs[s].stype = hs[t].stype
  /\ LET r == OpPlusMoveLeft(hs[s], hs[t]) IN
     /\ hs' = [hs EXCEPT ![s] = r.h]
     /\ Done("plus_move_left", s, t, <<>>, hs[s], r.res, NoBin, 0,
             IF r.res = "ok" THEN r.h ELSE NoHist)
  /\ UNCHANGED aborted

\* a + std::move(b), same histogram type: b itself is accumulated into
PlusMoveRight(s, t) ==
  /\ Step /\ Exists(hs[s]) /\ Exists(hs[t]) /\ hs[s].stype = hs[t].stype
  /\ LET r == OpPlusMoveRight(hs[s], hs[t]) IN
     /\ hs' = [hs EXCEPT ![t] = r.h]
     /\ Done("plus_move_right", s, t, <<>>, hs[s], r.res, NoBin, 0,
             IF r.res = "ok" THEN r.h ELSE NoHist)
  /\ UNCHANGED aborted

Next ==
  \/ \E s \in Slots, axes \in AxesChoices, stype \in StorageTypes, cells \in SuppliedCells :
       ConstructAxesStorage(s, axes, stype, cells)
  \/ \E s \in Slots, axes \in AxesChoices, stype \in StorageTypes : ConstructAxes(s, axes, stype)
  \/ \E s \in Slots, stype \in StorageTypes : ConstructDefault(s, stype)
  \/ \E s, t \in Slots : ConstructCopy(s, t)
  \/ \E s, t \in Slots : ConstructMove(s, t)
  \/ \E s, t \in Slots, stype \in StorageTypes : ConstructConvertCopy(s, t, stype)
  \/ \E s, t \in Slots, stype \in StorageTypes : ConstructConvertMove(s, t, stype)
  \/ \E s, t \in Slots : Assign(s, t)
  \/ \E s, t \in Slots : AssignMove(s, t)
  \/ \E s, t \in Slots : AssignConvertCopy(s, t)
  \/ \E s, t \in Slots : AssignConvertMove(s, t)
  \/ \E s \in Slots, args \in Coords : Fill(s, args)
  \/ \E s \in Slots, idx \in IndexTuples : At(s, idx)
  \/ \E s \in Slots : Reset(s)
  \/ \E s, t \in Slots : PlusAssign(s, t)
  \/ \E s \in Slots, x \in ScalarChoices : MulAssign(s, x)
  \/ \E s \in Slots, x \in ScalarChoices : DivAssign(s, x)
  \/ \E s \in Slots, x \in ScalarChoices : Times(s, x)
  \/ \E s \in Slots, x \in ScalarChoices : TimesLeft(s, x)
  \/ \E s \in Slots, x \in ScalarChoices : Divide(s, x)
  \/ \E s, t \in Slots : Plus(s, t)
  \/ \E s, t \in Slots : PlusMoveLeft(s, t)
  \/ \E s, t \in Slots : PlusMoveRight(s, t)

Spec == Init /\ [][Next]_vars

(***************************************************************************)
(* The merge scenario: the inputs of a data set are dealt to workers, each *)
(* filling a histogram of its own; the workers' histograms are then merged *)
(* pairwise with +=.  whole is the histogram a single caller fills with    *)
(* every input.                                                            *)
(***************************************************************************)
\* a + b as overload resolution picks it: the overloads taking an rvalue
\* need both operands of one histogram type
ValueCategories == {"lvalues", "left_rvalue", "right_rvalue"}

OpPlusCall(cat, a, b) ==
  IF cat = "left_rvalue" /\ a.stype = b.stype THEN OpPlusMoveLeft(a, b)
  ELSE IF cat = "right_rvalue" /\ a.stype = b.stype THEN OpPlusMoveRight(a, b)
  ELSE OpPlus(a, b)

\* the storage types of the workers' histograms: all alike, or mixed
WorkerTypes ==
  { [w \in Workers |-> "count"], [w \in Workers |-> IF w = 2 THEN "real" ELSE "count"] }

\* the axes of the data set's histograms
MergeAxes == { <<AxisC>>, <<AxisA, AxisB>> }

InitMerge ==
  /\ \E axes \in MergeAxes, stypes \in WorkerTypes :
       /\ workers = [w \in Workers |-> CtorAxes(axes, stypes[w])]
       /\ whole = CtorAxes(axes, stypes[1])
  /\ alive = Workers
  /\ mphase = "fill"
  /\ nfill = 0
  /\ hs = [s \in Slots |-> NoHist]
  /\ last = NoLast
  /\ nops = 0
  /\ aborted = FALSE

\* the next input goes to worker w, and to the single caller's histogram
MFill(w, args) ==
  /\ mphase = "fill" /\ nfill < MaxInputs
  /\ nfill' = nfill + 1
  /\ workers' = [workers EXCEPT ![w] = HistFill(workers[w], args).h]
  /\ whole' = HistFill(whole, args).h
  /\ last' = NoLast
  /\ UNCHANGED <<hs, nops, aborted, alive, mphase>>

\* the input is exhausted
MStartMerge ==
  /\ mphase = "fill"
  /\ mphase' = "merge"
  /\ last' = NoLast
  /\ UNCHANGED <<hs, nops, aborted, workers, alive, whole, nfill>>

\* workers[i] += workers[j]; worker j is done
MMerge(i, j) ==
  /\ mphase = "merge" /\ i \in alive /\ j \in alive /\ i # j
  /\ LET r == HistPlusAssign(workers[i], workers[j]) IN
     /\ r.res = "ok"
     /\ workers' = [workers EXCEPT ![i] = r.h]
  /\ alive' = alive \ {j}
  /\ last' = NoLast
  /\ UNCHANGED <<hs, nops, aborted, whole, mphase, nfill>>

\* copies of two workers' histograms are added with binary +
MPlus(i, j, cat) ==
  /\ mphase = "fill" /\ last.op = "none" /\ i <= j
  /\ LET r == OpPlusCall(cat, workers[i], workers[j]) IN
     last' = [NoLast EXCEPT !.op = "plus", !.slot = i, !.other = j,
                            !.pre = workers[i], !.rhs = workers[j],
                            !.res = r.res, !.ret = r.h]
  /\ UNCHANGED <<hs, nops, aborted, workers, alive, whole, mphase, nfill>>

NextMerge ==
  \/ \E w \in Workers, args \in Coords : MFill(w, args)
  \/ MStartMerge
  \/ \E i, j \in Workers : MMerge(i, j)
  \/ \E i, j \in Workers, cat \in ValueCategories : MPlus(i, j, cat)

SpecMerge == InitMerge /\ [][NextMerge]_vars

(***************************************************************************)
(* Properties of the class, checked under Spec.                            *)
(***************************************************************************)
Live == { s \in Slots : Exists(hs[s]) }

AllZero(cells) == \A i \in 1..Len(cells) : cells[i] = 0

\* the tuples of per-axis bin ids that are in range for the axes
MaxExtent ==
  CHOOSE m \in { Extent(x) : x \in AxisChoices } : \A x \in AxisChoices : Extent(x) <= m

InRange(axes) ==
  { t \in [1..Len(axes) -> 0..(MaxExtent - 1)] : \A k \in 1..Len(axes) : t[k] < Extent(axes[k]) }

\* C1: in every reachable state, storage size() equals the product of the
\* axes' total bin counts.
C1_SizeIsBincount ==
  \A s \in Live : size(hs[s]) = bincount(hs[s].axes)

\* The part of C1 that the code keeps: a histogram's size is the product of
\* its axes' bin counts unless it stems from a default-constructed one, which
\* has no axis and no cell.
SizeIsBincountUnlessDefault ==
  \A s \in Live :
    \/ size(hs[s]) = bincount(hs[s].axes)
    \/ hs[s].axes = <<>> /\ hs[s].cells = <<>>

\* C2: after a fill with rank() coordinates that the axes route to bin ids
\* (b0,...,bk), at(b0,...,bk) holds one more observation than before the
\* fill and every other cell holds the value it held before.
C2_FillAtConsistent ==
  (last.op = "fill" /\ last.res = "ok") =>
    LET h == hs[last.slot]
        ids == BinIds(last.pre.axes, last.args)
        before == HistAt(last.pre, ids)
        after == HistAt(h, ids)
    IN /\ after.res = "ok" /\ ~after.ub
       /\ before.res = "ok" /\ ~before.ub
       /\ after.val = before.val + 1
       /\ h.axes = last.pre.axes
       /\ size(h) = size(last.pre)
       /\ \A t \in InRange(h.axes) \ {ids} :
            /\ HistAt(h, t).res = "ok" /\ ~HistAt(h, t).ub
            /\ HistAt(h, t).val = HistAt(last.pre, t).val

\* The part of C2 that the code keeps: the same, for a histogram whose
\* storage has the size its axes ask for.
FillAtConsistentWhenSized ==
  (last.op = "fill" /\ last.res = "ok" /\ size(last.pre) = bincount(last.pre.axes))
    => C2_FillAtConsistent

\* C3: a += b with structurally unequal axes fails with invalid_argument
\* and leaves a's axes and every cell of a unchanged.
C3_MismatchRejected ==
  (last.op = "plus_assign" /\ ~axes_equal(last.pre.axes, last.rhs.axes)) =>
    /\ last.res = "invalid_argument"
    /\ hs[last.slot] = last.pre

\* a += b was called on unequal axes of the same bin count, b holding counts
C3_Witness ==
  /\ last.op = "plus_assign"
  /\ ~axes_equal(last.pre.axes, last.rhs.axes)
  /\ size(last.pre) = size(last.rhs)
  /\ ~AllZero(last.rhs.cells)

\* C4: fill or at called with a number of arguments other than the rank
\* fails with invalid_argument and leaves the histogram as it was.
C4_ArityEnforced ==
  (last.op \in {"fill", "at"} /\ Len(last.args) # rank(last.pre)) =>
    /\ last.res = "invalid_argument"
    /\ hs[last.slot] = last.pre

\* fill was called with too many arguments on a histogram holding counts
C4_Witness ==
  /\ last.op = "fill"
  /\ Len(last.args) > rank(last.pre)
  /\ rank(last.pre) > 0
  /\ ~AllZero(last.pre.cells)

\* C5: at called with rank() indices, one of them equal to or beyond its
\* axis's total bin count, fails with out_of_range, returns no cell and
\* leaves the histogram as it was.
C5_RangeEnforced ==
  (/\ last.op = "at"
   /\ Len(last.args) = rank(last.pre)
   /\ \E k \in 1..Len(last.args) : last.args[k] >= Extent(last.pre.axes[k])) =>
    /\ last.res = "out_of_range"
    /\ last.off = NoBin
    /\ hs[last.slot] = last.pre

\* at was called on two axes, the first index valid, the second equal to
\* its axis's total bin count
C5_Witness ==
  /\ last.op = "at"
  /\ rank(last.pre) = 2 /\ Len(last.args) = 2
  /\ last.args[1] < Extent(last.pre.axes[1])
  /\ last.args[2] = Extent(last.pre.axes[2])

\* the offsets of at are a bijection between the in-range bin-id tuples of
\* h's axes and [0, r0*...*rk), and fill addresses the same offsets
OffsetBijection(h) ==
  LET T == InRange(h.axes)
      off(t) == HistAt(h, t).off
  IN /\ \A t \in T : HistAt(h, t).res = "ok" /\ off(t) >= 0 /\ off(t) < bincount(h.axes)
     /\ \A t, u \in T : off(t) = off(u) => t = u
     /\ \A o \in 0..(bincount(h.axes) - 1) : \E t \in T : off(t) = o
     /\ \A c \in Coords :
          HistFill(h, c).res = "ok" => HistFill(h, c).off = off(BinIds(h.axes, c))

\* C6: the linear offset used by fill and at is a bijection between the
\* in-range bin-id tuples and the offsets [0, r0*...*rk), and every
\* computed offset is below storage size().
C6_OffsetBijection ==
  \A s \in Live :
    /\ OffsetBijection(hs[s])
    /\ \A t \in InRange(hs[s].axes) : HistAt(hs[s], t).off < size(hs[s])

\* The part of C6 that the code keeps: the offsets are a bijection onto
\* [0, r0*...*rk) for every histogram, and lie below size() when the storage
\* has the size the axes ask for.
OffsetBijectionWhenSized ==
  \A s \in Live :
    /\ OffsetBijection(hs[s])
    /\ size(hs[s]) = bincount(hs[s].axes) =>
         \A t \in InRange(hs[s].axes) : HistAt(hs[s], t).off < size(hs[s])

\* C8: h * 1.0 and 1.0 * h compare equal to h, and computing them leaves h
\* unmodified.
C8_ScalarIdentity ==
  (last.op \in {"times", "times_left"} /\ last.args = <<1, 1>>) =>
    /\ HistEq(last.ret, last.pre)
    /\ HistEq(last.pre, last.ret)
    /\ hs[last.slot] = last.pre

\* h * 1.0 was computed for a histogram of integer counts that holds some
C8_Witness ==
  /\ last.op = "times" /\ last.args = <<1, 1>>
  /\ last.pre.stype = "count"
  /\ ~AllZero(last.pre.cells)

AxesCtorOps == {"ctor_axes", "ctor_axes_storage"}
ConvertOps == {"ctor_convert_copy", "ctor_convert_move",
               "assign_convert_copy", "assign_convert_move"}

\* C9 as stated, for the cells: whenever the axes are established or
\* replaced, by construction from axes or by cross-type construction or
\* assignment, all cells of the storage are reset to their default value.
\* (The size the storage then has is the subject of C1.)
C9_ResetOnAxesChange ==
  (last.op \in AxesCtorOps \cup ConvertOps) => AllZero(hs[last.slot].cells)

\* C9 amended: construction from axes resizes the storage to the product of
\* the bin counts and resets every cell; cross-type construction and
\* assignment take the source's axes and the source's cells, size and
\* values, without a reset.
C9_ResetOnConstruction ==
  /\ last.op \in AxesCtorOps =>
       /\ size(hs[last.slot]) = bincount(hs[last.slot].axes)
       /\ AllZero(hs[last.slot].cells)
  /\ last.op \in ConvertOps =>
       /\ hs[last.slot].axes = last.rhs.axes
       /\ hs[last.slot].cells = last.rhs.cells

\* a histogram was constructed from axes and a non-empty storage of the
\* wrong size
C9_Witness ==
  /\ last.op = "ctor_axes_storage"
  /\ last.args # <<>>
  /\ Len(last.args) # bincount(hs[last.slot].axes)

(***************************************************************************)
(* Properties of addition, checked under SpecMerge.                        *)
(***************************************************************************)
\* C7: for histograms with structurally equal axes, a + b == b + a and
\* (a + b) + c == a + (b + c), whichever overload of operator+ is taken,
\* and the sum carries the axes of the left operand.
C7_PlusCommAssoc ==
  last.op = "plus" =>
    LET a == last.pre
        b == last.rhs
    IN /\ last.res = "ok"
       /\ last.ret.axes = a.axes
       /\ \A cat \in ValueCategories :
            /\ OpPlusCall(cat, b, a).res = "ok"
            /\ OpPlusCall(cat, b, a).h.axes = b.axes
            /\ HistEq(last.ret, OpPlusCall(cat, b, a).h)
            /\ \A w \in Workers :
                 LET c == workers[w] IN
                 /\ HistEq(OpPlusCall(cat, last.ret, c).h,
                           OpPlusCall(cat, a, OpPlusCall(cat, b, c).h).h)
                 /\ HistEq(OpPlusCall(cat, c, last.ret).h,
                           OpPlusCall(cat, OpPlusCall(cat, c, a).h, b).h)

\* a + b was computed for two workers holding different, non-zero counts
C7_Witness ==
  /\ last.op = "plus" /\ last.res = "ok"
  /\ ~AllZero(last.pre.cells) /\ ~AllZero(last.rhs.cells)
  /\ last.pre.cells # last.rhs.cells
  /\ \E w \in Workers : workers[w] # last.pre /\ workers[w] # last.rhs
                        /\ ~AllZero(workers[w].cells)

\* C10: once the workers' histograms are merged into one, it equals the
\* histogram filled with the whole input sequence.
C10_MergeEqualsWhole ==
  (mphase = "merge" /\ Cardinality(alive) = 1) =>
    \A w \in alive : HistEq(workers[w], whole) /\ HistEq(whole, workers[w])

\* every input was consumed, the counts landed in at least two cells, and
\* all workers are merged into one
C10_Witness ==
  /\ mphase = "merge" /\ Cardinality(alive) = 1
  /\ nfill = MaxInputs
  /\ \E i, k \in 1..Len(whole.cells) : i # k /\ whole.cells[i] > 0 /\ whole.cells[k] > 0

====
